---- MODULE Spec2Model ----
(***************************************************************************)
(* Model of src/input_processor_threshold_temp_layer.c: the threshold      *)
(* temp-layer input processor.  Each processor instance (device) owns 16   *)
(* layer slots; a slot accumulates pointer movement, activates its layer   *)
(* when the configured threshold is reached, and is deactivated by its     *)
(* delayable work item (timeout) or by a key press.                        *)
(*                                                                         *)
(* Every handler runs atomically (one action per handler call).  Time is   *)
(* the kernel uptime in milliseconds.  The kernel's delayable work item is *)
(* modelled by two facts per slot: a scheduled deadline (the timeout) and  *)
(* whether the work item sits in the work queue waiting to run.            *)
(***************************************************************************)
EXTENDS Integers, Sequences, FiniteSets, TLC

\* ---------------------------------------------------------------- bounds
MaxTime == 5
MaxDelta == 8

\* ------------------------------------------------------- program constants
MAX_LAYERS == 16

\* -------------------------------------------------------------- inputs
\* an input event: type, code and value (zephyr input-event-codes.h)
Event(type, code, value) == [type |-> type, code |-> code, value |-> value]

\* values of the relative X and Y events
EvValues == {-2, 0, 1}

\* the events delivered: X movement of every value, a Y movement, a wheel event, a key-type event
Events ==
    {Event("INPUT_EV_REL", "INPUT_REL_X", v) : v \in EvValues}
    \cup {Event("INPUT_EV_REL", "INPUT_REL_Y", 1),
          Event("INPUT_EV_REL", "INPUT_REL_WHEEL", 1),
          Event("INPUT_EV_KEY", "INPUT_REL_X", 1)}

\* a uint32_t runtime parameter, held as its two 16-bit halves
U32(hi, lo) == [hi |-> hi, lo |-> lo]

\* 32-bit values of param1 the bindings use: the valid layers 0 and 1, a
\* value above the slot count, and a value above 255 whose low byte is 0
Param1Values == {U32(0, 0), U32(0, 1), U32(0, 16), U32(0, 256)}

\* key positions delivered by position_state_changed events
Positions == {0, 1, 2}

\* timeouts (param2 as int16_t) that arm the work item, and 0; no motion
\* event is delivered later than MaxTime minus the longest one, so every
\* armed deadline is reached
Timeouts == {0, 2}
MaxTimeout == CHOOSE m \in Timeouts : \A t \in Timeouts : t <= m
LastEventTime == MaxTime - MaxTimeout

Layers == 0 .. (MAX_LAYERS - 1)

\* ------------------------------------------------------------ conversions
\* (uint8_t)param1
ToUint8(p) == p.lo % 256

\* the conversion of param2 without the sign: the low 16 bits as they are
ToInt16_Unsigned(p) == p.lo

\* (int16_t)param2
ToInt16(p) == IF p.lo >= 32768 THEN p.lo - 65536 ELSE p.lo

\* (int)param3
ToInt(p) == IF p.hi >= 32768 THEN (p.hi - 65536) * 65536 + p.lo ELSE p.hi * 65536 + p.lo

\* abs() of <stdlib.h>
abs(x) == IF x < 0 THEN 0 - x ELSE x

\* ---------------------------------------------------------- configuration
\* Slots reached by the bindings of one deployment: param2 (timeout) and
\* param3 (threshold) of the binding that names the slot.  Bindings whose
\* param1 resolve to the same slot carry the same param2 and param3.
\* Layers 2 and 3 of instance 0 carry 32-bit timeouts that do not fit
\* int16_t: 40000, and 65538 (low 16 bits 2).
BindParam2(dev, layer) ==
    IF dev = 0 THEN (IF layer = 0 THEN U32(0, 2)
                     ELSE IF layer = 2 THEN U32(0, 40000)
                     ELSE IF layer = 3 THEN U32(1, 2)
                     ELSE U32(0, 0))
    ELSE (IF layer = 0 THEN U32(0, 2) ELSE U32(0, 0))

BindParam3(dev, layer) ==
    IF dev = 0 THEN (IF layer = 0 THEN U32(0, 3) ELSE U32(0, 0))
    ELSE (IF layer = 0 THEN U32(0, 2) ELSE U32(0, 0))

\* layers a binding of the device names (after the uint8_t conversion)
BoundLayers(dev) == IF dev = 0 THEN {0, 1} ELSE {0}

\* struct threshold_temp_layer_config, one per instance
Config(idle, excl) ==
    [require_prior_idle_ms |-> idle,
     excluded_positions_len |-> Len(excl),
     excluded_positions |-> excl]

\* the devicetree configurations considered: one processor instance, with
\* and without an idle requirement, position 1 excluded
Deployments ==
    { (0 :> Config(2, <<1>>)),
      (0 :> Config(0, <<1>>)) }

\* two processor instances (DT_INST_FOREACH_STATUS_OKAY defines one device
\* per enabled node), each with its own idle requirement and exclusions
MultiDeployments ==
    { (0 :> Config(2, <<1>>)) @@ (1 :> Config(0, <<2>>)) }

\* ------------------------------------------------------------------ state
VARIABLES
    cfg,          \* dev->config of every instance (immutable)
    data,         \* dev->data of every instance
    now,          \* k_uptime_get()
    pending_dx,   \* static int pending_dx of handle_event
    pending_dy,   \* static int pending_dy of handle_event
    emitted,      \* layer commands issued by the last handler call
    last,         \* the last handler call, its arguments, and what the
                  \* slots it was called for held before it
    trk,          \* per slot: running sum of sample distances (history)
    cd,           \* arguments and result of calculate_distance under test
    keymap,       \* the layers the keymap holds active (layer commands applied)
    pc            \* where each handler stands when handlers interleave

vars == <<cfg, data, now, pending_dx, pending_dy, emitted, last, trk, cd, keymap, pc>>

Devs == DOMAIN cfg

\* struct k_work_delayable: armed with a deadline, or queued for the handler
IdleWork == [scheduled |-> FALSE, deadline |-> 0, queued |-> FALSE]

\* struct threshold_temp_layer_layer_data after init
InitLayerData == [accumulated_distance |-> 0, active |-> FALSE, disable_work |-> IdleWork]

\* an init that leaves the last key press far in the past
threshold_temp_layer_init_LongIdle ==
    [last_tap_time |-> 0 - MaxTime, layers |-> [i \in Layers |-> InitLayerData]]

\* threshold_temp_layer_init
threshold_temp_layer_init == [last_tap_time |-> 0, layers |-> [i \in Layers |-> InitLayerData]]

NoCall == [kind |-> "init", dev |-> 0, layer |-> 0, param1 |-> U32(0, 0), type |-> "", code |-> "",
           value |-> 0, position |-> 0, state |-> FALSE, was_active |-> {}, was_distance |-> 0]

NoTrack == [on |-> FALSE, sum |-> 0, n |-> 0]
StartTrack == [on |-> TRUE, sum |-> 0, n |-> 0]

NoDist == [dx |-> 0, dy |-> 0, out |-> 0, done |-> FALSE]

\* no handler is running: the motion, key and timer handlers have returned
Returned == [motion |-> "returned", m_layer |-> 0, m_value |-> 0,
             key |-> "returned", k_i |-> 0,
             timer |-> "returned", t_layer |-> 0]

\* every instance after threshold_temp_layer_init, for the configuration c
Booted(c) ==
    /\ cfg = c
    /\ data = [d \in DOMAIN c |-> threshold_temp_layer_init]
    /\ now = 0
    /\ pending_dx = 0
    /\ pending_dy = 0
    /\ emitted = <<>>
    /\ last = NoCall
    /\ trk = [d \in DOMAIN c |-> [i \in Layers |-> StartTrack]]
    /\ cd = NoDist
    /\ keymap = {}
    /\ pc = Returned

Init == \E c \in Deployments : Booted(c)

InitMulti == \E c \in MultiDeployments : Booted(c)

\* ------------------------------------------------------- pure helpers
\* calculate_distance with the larger value taken for both terms
calculate_distance_MinIsMax(dx, dy) ==
    LET abs_dx == abs(dx)
        abs_dy == abs(dy)
        max_val == IF abs_dx > abs_dy THEN abs_dx ELSE abs_dy
        min_val == IF abs_dx > abs_dy THEN abs_dx ELSE abs_dy
    IN max_val + (min_val \div 2)

\* calculate_distance: max + min/2 approximation of the magnitude
calculate_distance(dx, dy) ==
    LET abs_dx == abs(dx)
        abs_dy == abs(dy)
        max_val == IF abs_dx > abs_dy THEN abs_dx ELSE abs_dy
        min_val == IF abs_dx > abs_dy THEN abs_dy ELSE abs_dx
    IN max_val + (min_val \div 2)

\* if (layer >= MAX_LAYERS) return 0;
LayerOutOfRange(layer) == layer >= MAX_LAYERS

\* the idle check left out: no event is ignored
IdleGated_Off(active, require_prior_idle_ms, uptime, last_tap_time) ==
    /\ ~active
    /\ require_prior_idle_ms > 0
    /\ (uptime - last_tap_time) < 0

\* the idle check with the boundary on the wrong side (<= for <)
IdleGated_Inclusive(active, require_prior_idle_ms, uptime, last_tap_time) ==
    /\ ~active
    /\ require_prior_idle_ms > 0
    /\ (uptime - last_tap_time) <= require_prior_idle_ms

\* the idle check: an inactive slot ignores the event while the last key
\* press is more recent than require_prior_idle_ms
IdleGated(active, require_prior_idle_ms, uptime, last_tap_time) ==
    /\ ~active
    /\ require_prior_idle_ms > 0
    /\ (uptime - last_tap_time) < require_prior_idle_ms

\* the threshold comparison with > for >=
ThresholdReached_Strict(accumulated_distance, activation_threshold) ==
    accumulated_distance > activation_threshold

\* if (layer_data->accumulated_distance >= activation_threshold)
ThresholdReached(accumulated_distance, activation_threshold) ==
    accumulated_distance >= activation_threshold

\* the event test without the test of event->code: any relative event
IsMotion_AnyRelative(type, code) ==
    type = "INPUT_EV_REL"

\* event->type == INPUT_EV_REL && (code == INPUT_REL_X || code == INPUT_REL_Y)
IsMotion(type, code) ==
    /\ type = "INPUT_EV_REL"
    /\ code = "INPUT_REL_X" \/ code = "INPUT_REL_Y"

\* the excluded-positions loop reading an array left at zero
IsExcluded_Zeroed(c, position) ==
    \E i \in 1 .. c.excluded_positions_len : 0 = position

\* the excluded-positions loop of handle_position_state_changed
IsExcluded(c, position) ==
    \E i \in 1 .. c.excluded_positions_len : c.excluded_positions[i] = position

\* DEVICE_DT_INST_GET(0): the instance the timer and key handlers look up
DEVICE_DT_INST_GET == 0

\* &data->layers[i] == layer_data, with data the data of instance inst
SameSlot(inst, i, dev, layer) == inst = dev /\ i = layer

\* ------------------------------------------------ delayable work (kernel)
\* a reschedule that keeps the deadline of a work item already armed
k_work_reschedule_KeepsDeadline(work, uptime, timeout) ==
    IF work.scheduled THEN work
    ELSE [work EXCEPT !.scheduled = TRUE, !.deadline = uptime + timeout]

\* k_work_reschedule(&layer_data->disable_work, K_MSEC(timeout)): replaces
\* the deadline; a work item already queued stays queued
k_work_reschedule(work, uptime, timeout) ==
    [work EXCEPT !.scheduled = TRUE, !.deadline = uptime + timeout]

\* k_work_cancel_delayable(&disable_work): drops the deadline and unqueues
k_work_cancel_delayable(work) == IdleWork

\* the activate command naming layer 0 whatever the slot
Activate_LayerZero(dev, layer) == [cmd |-> "activate", layer |-> 0, dev |-> dev]

\* layer commands handed to the keymap
Activate(dev, layer) == [cmd |-> "activate", layer |-> layer, dev |-> dev]
Deactivate(dev, layer) == [cmd |-> "deactivate", layer |-> layer, dev |-> dev]

\* zmk_keymap_layer_activate / zmk_keymap_layer_deactivate applied in the
\* order of the calls: the keymap's set of active layers afterwards
RECURSIVE Keymap(_, _)
Keymap(km, cmds) ==
    IF cmds = <<>> THEN km
    ELSE Keymap(IF Head(cmds).cmd = "activate"
                THEN km \cup {Head(cmds).layer}
                ELSE km \ {Head(cmds).layer},
                Tail(cmds))

\* ---------------------------------------------------------- slot updates
\* accumulate and activate, with the threshold compared before the addition
Accumulate_CheckFirst(layer_data, distance, activation_threshold) ==
    [layer_data EXCEPT !.accumulated_distance = @ + distance,
                       !.active = ThresholdReached(layer_data.accumulated_distance,
                                                   activation_threshold)]

\* lines 108-116: accumulate and activate (slot inactive on entry)
Accumulate(layer_data, distance, activation_threshold) ==
    LET acc == layer_data.accumulated_distance + distance
    IN [layer_data EXCEPT !.accumulated_distance = acc,
                          !.active = ThresholdReached(acc, activation_threshold)]

\* the re-arm with timeout >= 0 for timeout > 0
Rearm_ZeroArms(layer_data, uptime, timeout) ==
    IF layer_data.active /\ timeout >= 0
    THEN [layer_data EXCEPT !.disable_work = k_work_reschedule(@, uptime, timeout)]
    ELSE layer_data

\* lines 121-123: re-arm the timeout of an active slot
Rearm(layer_data, uptime, timeout) ==
    IF layer_data.active /\ timeout > 0
    THEN [layer_data EXCEPT !.disable_work = k_work_reschedule(@, uptime, timeout)]
    ELSE layer_data

\* lines 97-125: the slot after a relative X or Y event
MotionUpdate(layer_data, dx, dy, uptime, timeout, activation_threshold) ==
    LET after == IF ~layer_data.active
                 THEN Accumulate(layer_data, calculate_distance(dx, dy), activation_threshold)
                 ELSE layer_data
    IN Rearm(after, uptime, timeout)

\* the work handler's deactivation without the reset of the distance
TimeoutReset_KeepsDistance(layer_data) ==
    [layer_data EXCEPT !.active = FALSE]

\* lines 65-67: the work handler's deactivation of its slot
TimeoutReset(layer_data) ==
    [layer_data EXCEPT !.active = FALSE, !.accumulated_distance = 0]

\* the key handler's reset applied to inactive slots as well
KeyReset_AnySlot(layer_data) ==
    [layer_data EXCEPT !.active = FALSE, !.accumulated_distance = 0,
                       !.disable_work = k_work_cancel_delayable(@)]

\* lines 150-155: the key handler's reset of one slot
KeyReset(layer_data) ==
    IF layer_data.active
    THEN [layer_data EXCEPT !.active = FALSE, !.accumulated_distance = 0,
                            !.disable_work = k_work_cancel_delayable(@)]
    ELSE layer_data

\* the loop index order 0 .. MAX_LAYERS-1 as a sequence
LayerSeq == [i \in 1 .. MAX_LAYERS |-> i - 1]

\* the key handler's loop deactivating every layer, active or not
KeyResetCommands_AllLayers(dev, layers) ==
    [k \in 1 .. Len(LayerSeq) |-> Deactivate(dev, LayerSeq[k])]

\* deactivate commands of the key handler's loop, in loop order
KeyResetCommands(dev, layers) ==
    LET act == SelectSeq(LayerSeq, LAMBDA i : layers[i].active)
    IN [k \in 1 .. Len(act) |-> Deactivate(dev, act[k])]

\* ------------------------------------------------------------- history
\* was_active: the layers of the called instance that were active before the
\* call; was_distance: the accumulated distance of the called slot before it
Call(kind, dev, layer, param1, type, code, value, position, state) ==
    [kind |-> kind, dev |-> dev, layer |-> layer, param1 |-> param1, type |-> type,
     code |-> code, value |-> value, position |-> position, state |-> state,
     was_active |-> {i \in Layers : data[dev].layers[i].active},
     was_distance |-> IF layer \in Layers
                      THEN data[dev].layers[layer].accumulated_distance ELSE 0]

\* the idle requirement read off the state alone (no key press too recent)
IdleSatisfied(dev) ==
    \/ cfg[dev].require_prior_idle_ms <= 0
    \/ now - data[dev].last_tap_time >= cfg[dev].require_prior_idle_ms

\* restart the running sum of a slot after an interruption (key press, timer
\* run): a sequence of samples is followed from an inactive slot at distance 0
Retrack(slot) ==
    IF ~slot.active /\ slot.accumulated_distance = 0 THEN StartTrack ELSE NoTrack

\* the running sum after one more X or Y sample of an inactive slot
TrackSample(t, value) ==
    IF t.on THEN [t EXCEPT !.sum = @ + abs(value), !.n = 1] ELSE t

\* the running sums after a motion event: an X or Y sample for an inactive
\* slot whose idle requirement is met counts, any other event does not
TrackMotion(dev, layer, type, code, value) ==
    IF /\ layer \in Layers
       /\ type = "INPUT_EV_REL" /\ code \in {"INPUT_REL_X", "INPUT_REL_Y"}
       /\ ~data[dev].layers[layer].active
       /\ IdleSatisfied(dev)
    THEN [trk EXCEPT ![dev][layer] = TrackSample(@, value)]
    ELSE trk

\* ------------------------------------------------------------- actions
\* the motion handler without lines 118-119: the pending values are kept
threshold_temp_layer_handle_event_KeepsPending(dev, type, code, value, param1) ==
    LET layer == ToUint8(param1)
        timeout == ToInt16(BindParam2(dev, layer))
        activation_threshold == ToInt(BindParam3(dev, layer))
    IN
    /\ now <= LastEventTime
    /\ last' = Call("motion", dev, layer, param1, type, code, value, 0, FALSE)
    /\ trk' = TrackMotion(dev, layer, type, code, value)
    /\ UNCHANGED <<cfg, now, cd, pc>>
    /\ IF LayerOutOfRange(layer)
       THEN UNCHANGED <<data, pending_dx, pending_dy>> /\ emitted' = <<>>
       ELSE
         LET layer_data == data[dev].layers[layer] IN
         IF IdleGated(layer_data.active, cfg[dev].require_prior_idle_ms,
                      now, data[dev].last_tap_time)
         THEN UNCHANGED <<data, pending_dx, pending_dy>> /\ emitted' = <<>>
         ELSE IF IsMotion(type, code)
         THEN
           LET dx == IF code = "INPUT_REL_X" THEN value ELSE pending_dx
               dy == IF code = "INPUT_REL_Y" THEN value ELSE pending_dy
               new == MotionUpdate(layer_data, dx, dy, now, timeout, activation_threshold)
           IN /\ data' = [data EXCEPT ![dev].layers[layer] = new]
              /\ emitted' = IF ~layer_data.active /\ new.active
                            THEN <<Activate(dev, layer)>> ELSE <<>>
              /\ pending_dx' = dx
              /\ pending_dy' = dy
         ELSE UNCHANGED <<data, pending_dx, pending_dy>> /\ emitted' = <<>>
    /\ keymap' = Keymap(keymap, emitted')

\* threshold_temp_layer_handle_event(dev, event, param1, param2, param3)
threshold_temp_layer_handle_event(dev, type, code, value, param1) ==
    LET layer == ToUint8(param1)
        timeout == ToInt16(BindParam2(dev, layer))
        activation_threshold == ToInt(BindParam3(dev, layer))
    IN
    /\ now <= LastEventTime
    /\ last' = Call("motion", dev, layer, param1, type, code, value, 0, FALSE)
    /\ trk' = TrackMotion(dev, layer, type, code, value)
    /\ UNCHANGED <<cfg, now, cd, pc>>
    /\ IF LayerOutOfRange(layer)
       THEN UNCHANGED <<data, pending_dx, pending_dy>> /\ emitted' = <<>>
       ELSE
         LET layer_data == data[dev].layers[layer] IN
         IF IdleGated(layer_data.active, cfg[dev].require_prior_idle_ms,
                      now, data[dev].last_tap_time)
         THEN UNCHANGED <<data, pending_dx, pending_dy>> /\ emitted' = <<>>
         ELSE IF IsMotion(type, code)
         THEN
           LET dx == IF code = "INPUT_REL_X" THEN value ELSE pending_dx
               dy == IF code = "INPUT_REL_Y" THEN value ELSE pending_dy
               new == MotionUpdate(layer_data, dx, dy, now, timeout, activation_threshold)
           IN /\ data' = [data EXCEPT ![dev].layers[layer] = new]
              /\ emitted' = IF ~layer_data.active /\ new.active
                            THEN <<Activate(dev, layer)>> ELSE <<>>
              /\ pending_dx' = 0
              /\ pending_dy' = 0
         ELSE UNCHANGED <<data, pending_dx, pending_dy>> /\ emitted' = <<>>
    /\ keymap' = Keymap(keymap, emitted')

\* a motion event of evs reaches the processor through a binding of params
HandleEventFrom(evs, params) ==
    \E dev \in Devs, event \in evs, param1 \in params :
        /\ LayerOutOfRange(ToUint8(param1)) \/ ToUint8(param1) \in BoundLayers(dev)
        /\ threshold_temp_layer_handle_event(dev, event.type, event.code, event.value, param1)

HandleEvent == HandleEventFrom(Events, Param1Values)

\* the key handler without the test of ev->state: a release acts as a press
handle_position_state_changed_AnyState(position, state) ==
    LET dev == DEVICE_DT_INST_GET
        c == cfg[dev]
    IN
    /\ last' = Call("key", dev, 0, U32(0, 0), "", "", 0, position, state)
    /\ UNCHANGED <<cfg, now, pending_dx, pending_dy, cd, pc>>
    /\ IF IsExcluded(c, position)
       THEN /\ UNCHANGED data
            /\ emitted' = <<>>
       ELSE /\ data' = [data EXCEPT ![dev] =
                          [last_tap_time |-> now,
                           layers |-> [i \in Layers |-> KeyReset(data[dev].layers[i])]]]
            /\ emitted' = KeyResetCommands(dev, data[dev].layers)
    /\ trk' = [d \in Devs |-> [i \in Layers |-> Retrack(data'[d].layers[i])]]
    /\ keymap' = Keymap(keymap, emitted')

\* handle_position_state_changed(eh) for a position_state_changed event
handle_position_state_changed(position, state) ==
    LET dev == DEVICE_DT_INST_GET
        c == cfg[dev]
    IN
    /\ last' = Call("key", dev, 0, U32(0, 0), "", "", 0, position, state)
    /\ UNCHANGED <<cfg, now, pending_dx, pending_dy, cd, pc>>
    /\ IF IsExcluded(c, position) \/ ~state
       THEN /\ UNCHANGED data
            /\ emitted' = <<>>
       ELSE /\ data' = [data EXCEPT ![dev] =
                          [last_tap_time |-> now,
                           layers |-> [i \in Layers |-> KeyReset(data[dev].layers[i])]]]
            /\ emitted' = KeyResetCommands(dev, data[dev].layers)
    /\ trk' = IF state
              THEN [d \in Devs |-> [i \in Layers |-> Retrack(data'[d].layers[i])]]
              ELSE trk
    /\ keymap' = Keymap(keymap, emitted')

KeyEvent ==
    \E position \in Positions, state \in BOOLEAN :
        handle_position_state_changed(position, state)

\* the kernel timeout of a slot's delayable work expires: the work item is
\* submitted to the work queue
WorkExpire(dev, layer) ==
    LET w == data[dev].layers[layer].disable_work IN
    /\ w.scheduled
    /\ w.deadline <= now
    /\ data' = [data EXCEPT ![dev].layers[layer].disable_work =
                    [w EXCEPT !.scheduled = FALSE, !.queued = TRUE]]
    /\ last' = Call("expire", dev, layer, U32(0, 0), "", "", 0, 0, FALSE)
    /\ emitted' = <<>>
    /\ UNCHANGED <<cfg, now, pending_dx, pending_dy, trk, cd, keymap, pc>>

Expire == \E dev \in Devs, layer \in Layers : WorkExpire(dev, layer)

\* the work handler without the test of layer_data->active
layer_disable_work_handler_NoActiveCheck(dev, layer) ==
    LET layer_data == data[dev].layers[layer]
        inst == DEVICE_DT_INST_GET
        hit == {i \in Layers : SameSlot(inst, i, dev, layer)}
        taken == [layer_data EXCEPT !.disable_work.queued = FALSE]
    IN
    /\ layer_data.disable_work.queued
    /\ IF hit # {}
       THEN /\ data' = [data EXCEPT ![dev].layers[layer] = TimeoutReset(taken)]
            /\ emitted' = <<Deactivate(inst, CHOOSE i \in hit : \A j \in hit : i <= j)>>
       ELSE /\ data' = [data EXCEPT ![dev].layers[layer] = taken]
            /\ emitted' = <<>>
    /\ last' = Call("timer", dev, layer, U32(0, 0), "", "", 0, 0, FALSE)
    /\ trk' = [trk EXCEPT ![dev][layer] = Retrack(data'[dev].layers[layer])]
    /\ keymap' = Keymap(keymap, emitted')
    /\ UNCHANGED <<cfg, now, pending_dx, pending_dy, cd, pc>>

\* layer_disable_work_handler(work), run by the work queue for the work item
\* of slot (dev, layer)
layer_disable_work_handler(dev, layer) ==
    LET layer_data == data[dev].layers[layer]
        inst == DEVICE_DT_INST_GET
        hit == {i \in Layers : SameSlot(inst, i, dev, layer) /\ layer_data.active}
        taken == [layer_data EXCEPT !.disable_work.queued = FALSE]
    IN
    /\ layer_data.disable_work.queued
    /\ IF hit # {}
       THEN /\ data' = [data EXCEPT ![dev].layers[layer] = TimeoutReset(taken)]
            /\ emitted' = <<Deactivate(inst, CHOOSE i \in hit : \A j \in hit : i <= j)>>
       ELSE /\ data' = [data EXCEPT ![dev].layers[layer] = taken]
            /\ emitted' = <<>>
    /\ last' = Call("timer", dev, layer, U32(0, 0), "", "", 0, 0, FALSE)
    /\ trk' = [trk EXCEPT ![dev][layer] = Retrack(data'[dev].layers[layer])]
    /\ keymap' = Keymap(keymap, emitted')
    /\ UNCHANGED <<cfg, now, pending_dx, pending_dy, cd, pc>>

TimerFire == \E dev \in Devs, layer \in Layers : layer_disable_work_handler(dev, layer)

\* a kernel timeout is due: it expires before the uptime advances
TimeoutDue ==
    \E dev \in Devs, layer \in Layers :
        LET w == data[dev].layers[layer].disable_work IN w.scheduled /\ w.deadline <= now

\* one millisecond of uptime passes
Tick ==
    /\ now < MaxTime
    /\ ~TimeoutDue
    /\ now' = now + 1
    /\ last' = [NoCall EXCEPT !.kind = "tick"]
    /\ emitted' = <<>>
    /\ UNCHANGED <<cfg, data, pending_dx, pending_dy, trk, cd, keymap, pc>>

Next == HandleEvent \/ KeyEvent \/ Expire \/ TimerFire \/ Tick

Spec == Init /\ [][Next]_vars

\* two instances, with the movement events and bindings that matter to the
\* instance lookup: X movement through the bindings of the valid layers
MultiEvents == {Event("INPUT_EV_REL", "INPUT_REL_X", v) : v \in {-2, 1}}
MultiParam1Values == {U32(0, 0), U32(0, 1)}

HandleEventMulti == HandleEventFrom(MultiEvents, MultiParam1Values)

NextMulti == HandleEventMulti \/ KeyEvent \/ Expire \/ TimerFire \/ Tick

SpecMulti == InitMulti /\ [][NextMulti]_vars

\* the kernel keeps the uptime running, fires due timeouts and runs queued
\* work items; nothing obliges the user to move the pointer or press keys
FairMulti ==
    /\ SpecMulti
    /\ WF_vars(Tick)
    /\ WF_vars(Expire)
    /\ WF_vars(TimerFire)

\* one instance, X movement through the bindings of layers 2 and 3, whose
\* timeouts do not fit int16_t
WideTimeoutParam1Values == {U32(0, 2), U32(0, 3)}

HandleEventWideTimeout ==
    \E event \in MultiEvents, param1 \in WideTimeoutParam1Values :
        threshold_temp_layer_handle_event(0, event.type, event.code, event.value, param1)

NextWideTimeout == HandleEventWideTimeout \/ KeyEvent \/ Expire \/ TimerFire \/ Tick

SpecWideTimeout == Init /\ [][NextWideTimeout]_vars

\* the run from boot in which no key is ever pressed or released
NextNoKey == HandleEvent \/ Expire \/ TimerFire \/ Tick

SpecNoKey == Init /\ [][NextNoKey]_vars

\* ------------------------------------------- interleaved handlers
\* The three handlers of instance 0 in three execution contexts (input
\* thread, event manager, work queue), one statement group per step.  The
\* source takes no lock, so a step of one handler may follow any step of
\* another; at most one call of each handler is in progress.
MotionSlot == data[0].layers[pc.m_layer]

\* the deployment and the movement delivered while handlers interleave
InitInterleaved == Booted(0 :> Config(2, <<1>>))

\* the next loop index at or after i whose slot a binding reaches, else
\* MAX_LAYERS: the iterations over the other slots read slots no handler
\* writes, so they are taken together with the step before them
NextBound(i) ==
    IF \E j \in BoundLayers(0) : j >= i
    THEN CHOOSE j \in BoundLayers(0) : j >= i /\ \A k \in BoundLayers(0) : k >= i => j <= k
    ELSE MAX_LAYERS

\* lines 73-88: the call, with the conversions and the range check
MotionCall ==
    \E event \in MultiEvents, param1 \in MultiParam1Values :
        /\ pc.motion = "returned"
        /\ now <= LastEventTime
        /\ ~LayerOutOfRange(ToUint8(param1))
        /\ pc' = [pc EXCEPT !.motion = "gate", !.m_layer = ToUint8(param1),
                            !.m_value = event.value]
        /\ UNCHANGED <<cfg, data, now, pending_dx, pending_dy, emitted, last, trk, cd, keymap>>

\* lines 90-95: the idle check
MotionGate ==
    /\ pc.motion = "gate"
    /\ pc' = IF IdleGated(MotionSlot.active, cfg[0].require_prior_idle_ms,
                          now, data[0].last_tap_time)
             THEN [pc EXCEPT !.motion = "returned", !.m_layer = 0, !.m_value = 0]
             ELSE [pc EXCEPT !.motion = "accumulate"]
    /\ UNCHANGED <<cfg, data, now, pending_dx, pending_dy, emitted, last, trk, cd, keymap>>

\* lines 102-110: store the X value, add the distance to an inactive slot
MotionAccumulate ==
    /\ pc.motion = "accumulate"
    /\ pending_dx' = pc.m_value
    /\ IF ~MotionSlot.active
       THEN /\ data' = [data EXCEPT ![0].layers[pc.m_layer].accumulated_distance =
                           @ + calculate_distance(pc.m_value, pending_dy)]
            /\ pc' = [pc EXCEPT !.motion = "threshold"]
       ELSE /\ UNCHANGED data
            /\ pc' = [pc EXCEPT !.motion = "rearm"]
    /\ UNCHANGED <<cfg, now, pending_dy, emitted, last, trk, cd, keymap>>

\* lines 112-113: the threshold test and layer_data->active = true
MotionThreshold ==
    /\ pc.motion = "threshold"
    /\ IF ThresholdReached(MotionSlot.accumulated_distance,
                           ToInt(BindParam3(0, pc.m_layer)))
       THEN /\ data' = [data EXCEPT ![0].layers[pc.m_layer].active = TRUE]
            /\ pc' = [pc EXCEPT !.motion = "activate"]
       ELSE /\ UNCHANGED data
            /\ pc' = [pc EXCEPT !.motion = "rearm"]
    /\ UNCHANGED <<cfg, now, pending_dx, pending_dy, emitted, last, trk, cd, keymap>>

\* line 114: zmk_keymap_layer_activate(layer)
MotionActivate ==
    /\ pc.motion = "activate"
    /\ keymap' = Keymap(keymap, <<Activate(0, pc.m_layer)>>)
    /\ pc' = [pc EXCEPT !.motion = "rearm"]
    /\ UNCHANGED <<cfg, data, now, pending_dx, pending_dy, emitted, last, trk, cd>>

\* lines 118-127: clear the pending values, re-arm an active slot, return
MotionRearm ==
    /\ pc.motion = "rearm"
    /\ pending_dx' = 0
    /\ pending_dy' = 0
    /\ data' = [data EXCEPT ![0].layers[pc.m_layer] =
                    Rearm(@, now, ToInt16(BindParam2(0, pc.m_layer)))]
    /\ pc' = [pc EXCEPT !.motion = "returned", !.m_layer = 0, !.m_value = 0]
    /\ UNCHANGED <<cfg, now, emitted, last, trk, cd, keymap>>

\* lines 130-147: a press at a position that is not excluded; last_tap_time
KeyCall ==
    \E position \in Positions :
        /\ pc.key = "returned"
        /\ ~IsExcluded(cfg[DEVICE_DT_INST_GET], position)
        /\ data' = [data EXCEPT ![DEVICE_DT_INST_GET].last_tap_time = now]
        /\ pc' = [pc EXCEPT !.key = "loop", !.k_i = NextBound(0)]
        /\ UNCHANGED <<cfg, now, pending_dx, pending_dy, emitted, last, trk, cd, keymap>>

\* lines 149-150: the loop test and the test of layers[i].active
KeyLoop ==
    /\ pc.key = "loop"
    /\ pc' = IF pc.k_i >= MAX_LAYERS THEN [pc EXCEPT !.key = "returned", !.k_i = 0]
             ELSE IF data[0].layers[pc.k_i].active THEN [pc EXCEPT !.key = "reset"]
             ELSE [pc EXCEPT !.k_i = NextBound(@ + 1)]
    /\ UNCHANGED <<cfg, data, now, pending_dx, pending_dy, emitted, last, trk, cd, keymap>>

\* lines 151-153: active = false, accumulated_distance = 0, cancel the work
KeyResetSlot ==
    /\ pc.key = "reset"
    /\ data' = [data EXCEPT ![0].layers[pc.k_i] =
                    [@ EXCEPT !.active = FALSE, !.accumulated_distance = 0,
                              !.disable_work = k_work_cancel_delayable(@)]]
    /\ pc' = [pc EXCEPT !.key = "deactivate"]
    /\ UNCHANGED <<cfg, now, pending_dx, pending_dy, emitted, last, trk, cd, keymap>>

\* line 154: zmk_keymap_layer_deactivate(i), then the next iteration
KeyDeactivate ==
    /\ pc.key = "deactivate"
    /\ keymap' = Keymap(keymap, <<Deactivate(0, pc.k_i)>>)
    /\ pc' = [pc EXCEPT !.key = "loop", !.k_i = NextBound(@ + 1)]
    /\ UNCHANGED <<cfg, data, now, pending_dx, pending_dy, emitted, last, trk, cd>>

\* lines 53-61: the work queue takes the queued item and calls the handler
TimerCall ==
    \E layer \in Layers :
        /\ pc.timer = "returned"
        /\ data[0].layers[layer].disable_work.queued
        /\ data' = [data EXCEPT ![0].layers[layer].disable_work.queued = FALSE]
        /\ pc' = [pc EXCEPT !.timer = "check", !.t_layer = layer]
        /\ UNCHANGED <<cfg, now, pending_dx, pending_dy, emitted, last, trk, cd, keymap>>

\* lines 63-64: the search for the slot and the test of layer_data->active
TimerCheck ==
    /\ pc.timer = "check"
    /\ pc' = IF \E i \in Layers : /\ SameSlot(DEVICE_DT_INST_GET, i, 0, pc.t_layer)
                                   /\ data[0].layers[pc.t_layer].active
             THEN [pc EXCEPT !.timer = "reset"]
             ELSE [pc EXCEPT !.timer = "returned", !.t_layer = 0]
    /\ UNCHANGED <<cfg, data, now, pending_dx, pending_dy, emitted, last, trk, cd, keymap>>

\* lines 65-66: active = false, accumulated_distance = 0
TimerResetSlot ==
    /\ pc.timer = "reset"
    /\ data' = [data EXCEPT ![0].layers[pc.t_layer] = TimeoutReset(@)]
    /\ pc' = [pc EXCEPT !.timer = "deactivate"]
    /\ UNCHANGED <<cfg, now, pending_dx, pending_dy, emitted, last, trk, cd, keymap>>

\* lines 67-68: zmk_keymap_layer_deactivate(i), break, return
TimerDeactivate ==
    /\ pc.timer = "deactivate"
    /\ keymap' = Keymap(keymap, <<Deactivate(0, pc.t_layer)>>)
    /\ pc' = [pc EXCEPT !.timer = "returned", !.t_layer = 0]
    /\ UNCHANGED <<cfg, data, now, pending_dx, pending_dy, emitted, last, trk, cd>>

NextInterleaved ==
    \/ MotionCall \/ MotionGate \/ MotionAccumulate \/ MotionThreshold
    \/ MotionActivate \/ MotionRearm
    \/ KeyCall \/ KeyLoop \/ KeyResetSlot \/ KeyDeactivate
    \/ TimerCall \/ TimerCheck \/ TimerResetSlot \/ TimerDeactivate
    \/ Expire \/ Tick

SpecInterleaved == InitInterleaved /\ [][NextInterleaved]_vars

\* ------------------------------------- calculate_distance on its own
DistRange == (0 - MaxDelta) .. MaxDelta

\* calculate_distance(dx, dy) is called and its result recorded
Distance ==
    \E dx \in DistRange, dy \in DistRange :
        /\ cd' = [dx |-> dx, dy |-> dy, out |-> calculate_distance(dx, dy), done |-> TRUE]
        /\ UNCHANGED <<cfg, data, now, pending_dx, pending_dy, emitted, last, trk, keymap, pc>>

SpecDist == Init /\ [][Distance]_vars

\* ------------------------------------------------------------ claims
Slot(d, l) == data[d].layers[l]
Threshold(d, l) == ToInt(BindParam3(d, l))
Timeout(d, l) == ToInt16(BindParam2(d, l))
Range(seq) == {seq[k] : k \in 1 .. Len(seq)}
MaxOf(a, b) == CHOOSE m \in {a, b} : m >= a /\ m >= b
MinOf(a, b) == CHOOSE m \in {a, b} : m <= a /\ m <= b
FloorHalf(n) == CHOOSE h \in 0 .. n : 2 * h <= n /\ n < 2 * h + 2

\* C1: following the X/Y samples handled for a slot from the moment it is
\* inactive at distance 0 (idle requirement met, no key press or timer run in
\* between), the slot is active exactly when the running sum of the samples'
\* distances has reached its threshold; the sample that makes it active emits
\* activate(layer), and activate is emitted by no other call.
C1_ActivatesAtThreshold ==
    \A d \in Devs : \A l \in BoundLayers(d) :
        /\ (trk[d][l].on /\ trk[d][l].n > 0)
              => (Slot(d, l).active <=> trk[d][l].sum >= Threshold(d, l))
        /\ (last.kind = "motion" /\ last.dev = d /\ last.layer = l
              /\ l \notin last.was_active /\ Slot(d, l).active)
              => emitted = <<Activate(d, l)>>
        /\ Activate(d, l) \in Range(emitted)
              => (last.kind = "motion" /\ last.dev = d /\ last.layer = l
                    /\ l \notin last.was_active /\ Slot(d, l).active)

\* a second sample brings the running sum to exactly the threshold
C1_Witness ==
    /\ last.kind = "motion" /\ last.dev = 0 /\ last.layer = 0
    /\ trk[0][0].on /\ trk[0][0].sum = Threshold(0, 0)
    /\ last.was_distance > 0 /\ 0 \notin last.was_active
    /\ Slot(0, 0).active
    /\ emitted = <<Activate(0, 0)>>

\* C5: with an idle requirement R > 0, a motion event for an inactive slot
\* less than R after the last key press leaves the slot's distance and active
\* flag as they were and emits nothing; an X/Y event at R or later (and any
\* X/Y event when R = 0) adds its magnitude and activates at the threshold.
C5_IdleGate ==
    (last.kind = "motion" /\ ~LayerOutOfRange(last.layer) /\ last.layer \notin last.was_active)
    => LET d == last.dev
           l == last.layer
           R == cfg[d].require_prior_idle_ms
           sum == last.was_distance + abs(last.value)
       IN IF R > 0 /\ now - data[d].last_tap_time < R
          THEN /\ Slot(d, l).accumulated_distance = last.was_distance
               /\ ~Slot(d, l).active
               /\ emitted = <<>>
          ELSE IsMotion(last.type, last.code)
               => /\ Slot(d, l).accumulated_distance = sum
                  /\ Slot(d, l).active <=> sum >= Threshold(d, l)
                  /\ emitted = IF Slot(d, l).active THEN <<Activate(d, l)>> ELSE <<>>

\* a sample exactly R after a key press is accumulated
C5_Witness ==
    /\ last.kind = "motion" /\ last.dev = 0 /\ last.layer = 0
    /\ IsMotion(last.type, last.code) /\ last.value # 0
    /\ 0 \notin last.was_active
    /\ cfg[0].require_prior_idle_ms > 0
    /\ data[0].last_tap_time > 0
    /\ now - data[0].last_tap_time = cfg[0].require_prior_idle_ms
    /\ Slot(0, 0).accumulated_distance = last.was_distance + abs(last.value)

\* C7: a slot that was active before a handler call and is inactive after it
\* (timer run or key press) has accumulated distance 0.
C7_ResetOnDeactivate ==
    \A l \in Layers :
        (l \in last.was_active /\ ~Slot(last.dev, l).active)
        => Slot(last.dev, l).accumulated_distance = 0

\* the timer handler has deactivated a slot that held a distance
C7_Witness ==
    /\ last.kind = "timer"
    /\ last.layer \in last.was_active
    /\ last.was_distance > 0
    /\ ~Slot(last.dev, last.layer).active
    /\ Slot(last.dev, last.layer).accumulated_distance = 0

\* C8: with threshold 0, an X or Y event for an inactive slot whose idle
\* requirement is met activates the slot, whatever the value of the event.
C8_ZeroThreshold ==
    (last.kind = "motion" /\ ~LayerOutOfRange(last.layer)
       /\ IsMotion(last.type, last.code)
       /\ last.layer \notin last.was_active
       /\ Threshold(last.dev, last.layer) = 0
       /\ IdleSatisfied(last.dev))
    => /\ Slot(last.dev, last.layer).active
       /\ emitted = <<Activate(last.dev, last.layer)>>

\* an event of value 0 has activated a slot of threshold 0
C8_Witness ==
    /\ last.kind = "motion" /\ last.dev = 0 /\ last.layer = 1
    /\ Threshold(0, 1) = 0
    /\ IsMotion(last.type, last.code) /\ last.value = 0
    /\ 1 \notin last.was_active
    /\ Slot(0, 1).active

\* C10: calculate_distance(dx, dy) is max(|dx|,|dy|) + floor(min(|dx|,|dy|)/2),
\* is never negative, and does not change when its arguments are swapped or
\* their signs flipped; (3,4) gives 5, (8,0) gives 8, (-6,2) gives 7.
C10_DistanceFormula ==
    cd.done =>
        /\ cd.out = MaxOf(abs(cd.dx), abs(cd.dy)) + FloorHalf(MinOf(abs(cd.dx), abs(cd.dy)))
        /\ cd.out >= 0
        /\ cd.out = calculate_distance(cd.dy, cd.dx)
        /\ cd.out = calculate_distance(0 - cd.dx, cd.dy)
        /\ cd.out = calculate_distance(cd.dx, 0 - cd.dy)
        /\ (cd.dx = 3 /\ cd.dy = 4) => cd.out = 5
        /\ (cd.dx = 8 /\ cd.dy = 0) => cd.out = 8
        /\ (cd.dx = 0 - 6 /\ cd.dy = 2) => cd.out = 7

\* the call calculate_distance(-6, 2) has returned 7
C10_Witness == cd.done /\ cd.dx = 0 - 6 /\ cd.dy = 2 /\ cd.out = 7

\* positions the configuration of instance d excludes
Excluded(d) == Range(cfg[d].excluded_positions)

\* a motion event for slot (d, l) or a key press instance d does not exclude
Interrupts(d, l) ==
    \/ \E event \in Events, param1 \in Param1Values :
          /\ ToUint8(param1) = l
          /\ threshold_temp_layer_handle_event(d, event.type, event.code, event.value, param1)
    \/ \E position \in Positions :
          /\ position \notin Excluded(d)
          /\ handle_position_state_changed(position, TRUE)

\* once no motion event for the slot and no non-excluded key press is handled
\* any more, the slot ends inactive
TimesOut(d, l) ==
    <>[][~Interrupts(d, l)]_vars => <>[](~Slot(d, l).active)

\* a run of the timer handler for a slot that was active leaves it inactive at
\* distance 0 and emits one deactivate for its layer
TimerRunDeactivates ==
    (last.kind = "timer" /\ last.layer \in last.was_active)
    => /\ ~Slot(last.dev, last.layer).active
       /\ Slot(last.dev, last.layer).accumulated_distance = 0
       /\ Len(emitted) = 1
       /\ emitted[1].cmd = "deactivate" /\ emitted[1].layer = last.layer

\* C2: with timer callbacks delivered fairly, a slot with timeout > 0 that is
\* active and gets no further motion event and no non-excluded key press
\* eventually is inactive, by a timer run that leaves its accumulated distance
\* 0 and emits exactly one deactivate (slots (0,0) and (1,0) are the slots
\* bound with a timeout > 0).
C2_TimeoutDeactivates == TimesOut(0, 0) /\ TimesOut(1, 0) /\ []TimerRunDeactivates

\* C2 for the slot of the instance the handlers look up
C2_FirstInstance ==
    /\ TimesOut(0, 0)
    /\ [](last.dev = 0 => TimerRunDeactivates)

\* C3: after a key press at a position an instance does not exclude, every
\* slot of that instance is inactive; each slot that was active has its timer
\* cancelled and exactly one deactivate emitted, and no other deactivate is
\* emitted.
C3_KeyPressDeactivatesAll ==
    (last.kind = "key" /\ last.state)
    => \A d \in Devs :
          last.position \notin Excluded(d)
          => /\ \A l \in Layers : ~Slot(d, l).active
             /\ d = last.dev
                => /\ \A l \in last.was_active : Slot(d, l).disable_work = IdleWork
                   /\ Len(emitted) = Cardinality(last.was_active)
                   /\ Range(emitted) = {Deactivate(d, l) : l \in last.was_active}

\* a key press has deactivated two slots that were active together
C3_TwoSlots ==
    /\ last.kind = "key" /\ last.state
    /\ last.position \notin Excluded(0)
    /\ last.was_active = {0, 1}
    /\ Len(emitted) = 2

\* C4: a key event (press or release) at a position an instance excludes
\* changes nothing of that instance: its last key press time and every slot's
\* distance, active flag and timer stay as they were, and no layer command is
\* emitted for it.
C4_ExcludedKeyNoEffect ==
    [][last'.kind = "key"
          => \A d \in Devs :
                last'.position \in Excluded(d)
                => /\ data'[d] = data[d]
                   /\ \A c \in Range(emitted') : c.dev # d]_vars

\* an excluded position was pressed while a slot was active and a key press
\* lay in the past, and the slot is still active
C4_Witness ==
    /\ last.kind = "key" /\ last.state
    /\ last.position \in Excluded(0)
    /\ last.was_active # {}
    /\ \A l \in last.was_active : Slot(0, l).active
    /\ data[0].last_tap_time < now
    /\ emitted = <<>>

\* C6: after a key press at a non-excluded position every slot's accumulated
\* distance is 0, also that of a slot that was inactive.
C6_KeyPressZeroesAll ==
    (last.kind = "key" /\ last.state /\ last.position \notin Excluded(last.dev))
    => \A l \in Layers : Slot(last.dev, l).accumulated_distance = 0

\* C9: a motion event whose 32-bit layer parameter is outside
\* 0 .. MAX_LAYERS-1 changes no slot, arms no timer and emits no command.
C9_OutOfRangeDropped ==
    [][(last'.kind = "motion" /\ (last'.param1.hi # 0 \/ last'.param1.lo >= MAX_LAYERS))
          => (data' = data /\ emitted' = <<>>)]_vars

\* C11: a run of the timer handler for a slot that is inactive changes nothing
\* but the work item leaving the queue: the slot's distance and active flag,
\* its armed deadline, every other slot, the last key press time and the
\* keymap stay as they were, and no command is emitted.
C11_TimerOnInactiveNoOp ==
    [][(last'.kind = "timer" /\ last'.layer \notin last'.was_active)
          => /\ data' = [data EXCEPT
                           ![last'.dev].layers[last'.layer].disable_work.queued = FALSE]
             /\ emitted' = <<>>
             /\ keymap' = keymap]_vars

\* the timer handler has run for an inactive slot that holds a distance
C11_Witness ==
    /\ last.kind = "timer"
    /\ last.layer \notin last.was_active
    /\ last.was_distance > 0
    /\ Slot(last.dev, last.layer).accumulated_distance = last.was_distance
    /\ ~Slot(last.dev, last.layer).active
    /\ emitted = <<>>

\* C12: a key release, at an excluded position or not, changes nothing: the
\* last key press time, every slot and every timer stay as they were and no
\* layer command is emitted.
C12_ReleaseNoEffect ==
    [][(last'.kind = "key" /\ ~last'.state)
          => (data' = data /\ emitted' = <<>> /\ keymap' = keymap)]_vars

\* a key at a position that is not excluded was released while a slot was
\* active with its timer armed, and the slot is still active
C12_Witness ==
    /\ last.kind = "key" /\ ~last.state
    /\ last.position \notin Excluded(0)
    /\ 0 \in last.was_active
    /\ Slot(0, 0).active /\ Slot(0, 0).disable_work.scheduled
    /\ data[0].last_tap_time < now
    /\ emitted = <<>>

\* the auto-deactivation of slot (d, l) is pending: its delayable work is
\* armed with a deadline or waits in the work queue for the handler
Pending(d, l) ==
    Slot(d, l).disable_work.scheduled \/ Slot(d, l).disable_work.queued

\* C13: in every reachable state a slot's auto-deactivation is pending if and
\* only if the slot is active and its timeout is greater than 0.
C13_PendingIffActive ==
    \A d \in Devs : \A l \in Layers :
        Pending(d, l) <=> (Slot(d, l).active /\ Timeout(d, l) > 0)

\* C16: a timer run deactivates a slot only when its timeout has elapsed
\* since the most recent X/Y sample handled for the slot.  Every X/Y sample
\* of an active slot sets the deadline to its own time plus the timeout, so
\* the deadline the slot holds is the last sample's time plus the timeout.
C16_NoStaleDeactivation ==
    (last.kind = "timer" /\ last.layer \in last.was_active
       /\ ~Slot(last.dev, last.layer).active)
    => now >= Slot(last.dev, last.layer).disable_work.deadline

C15_InterleavingsAgree ==
    pc = Returned => \A l \in Layers : Slot(0, l).active <=> l \in keymap

\* C17: an X or Y event handled for a slot that is active and has a timeout
\* greater than 0 sets the slot's deadline to now + timeout, whatever the
\* idle requirement, and changes nothing else: distance, active flag, every
\* other slot and the last key press time stay, and no command is emitted.
C17_RearmWhenActive ==
    [][(/\ last'.kind = "motion" /\ ~LayerOutOfRange(last'.layer)
        /\ IsMotion(last'.type, last'.code)
        /\ last'.layer \in last'.was_active
        /\ Timeout(last'.dev, last'.layer) > 0)
          => /\ data' = [data EXCEPT ![last'.dev].layers[last'.layer].disable_work =
                           [@ EXCEPT !.scheduled = TRUE,
                                     !.deadline = now + Timeout(last'.dev, last'.layer)]]
             /\ emitted' = <<>>
             /\ keymap' = keymap]_vars

\* under an idle requirement, an X event has moved the deadline of an active
\* slot from an earlier arming to now + timeout
C17_Witness ==
    /\ last.kind = "motion" /\ last.dev = 0 /\ last.layer = 0
    /\ IsMotion(last.type, last.code)
    /\ 0 \in last.was_active
    /\ cfg[0].require_prior_idle_ms > 0
    /\ now > 0
    /\ Slot(0, 0).active
    /\ Slot(0, 0).accumulated_distance = last.was_distance
    /\ Slot(0, 0).disable_work.scheduled
    /\ Slot(0, 0).disable_work.deadline = now + Timeout(0, 0)
    /\ emitted = <<>>

C19_OwningInstance ==
    /\ (last.kind = "timer" /\ last.layer \in last.was_active)
          => /\ ~Slot(last.dev, last.layer).active
             /\ emitted = <<Deactivate(last.dev, last.layer)>>
    /\ (last.kind = "key" /\ last.state)
          => \A d \in Devs :
                last.position \notin Excluded(d)
                => /\ data[d].last_tap_time = now
                   /\ \A l \in Layers : ~Slot(d, l).active

\* C20: a slot whose timeout is 0 never has its timer armed or queued, and it
\* goes from active to inactive only in a key press at a position its
\* instance does not exclude: motion events, releases, excluded keys, timer
\* runs and the passing of time leave it active.
C20_ZeroTimeoutStaysActive ==
    [][\A d \in Devs : \A l \in Layers :
          Timeout(d, l) = 0
          => /\ data'[d].layers[l].disable_work = IdleWork
             /\ (Slot(d, l).active /\ ~data'[d].layers[l].active)
                   => /\ last'.kind = "key" /\ last'.state
                      /\ last'.position \notin Excluded(d)]_vars

\* a slot with timeout 0, activated while motion was still delivered, is
\* active at the end of the run, after a press at an excluded position
C20_Witness ==
    /\ Timeout(0, 1) = 0
    /\ last.kind = "key" /\ last.state
    /\ last.position \in Excluded(0)
    /\ 1 \in last.was_active
    /\ Slot(0, 1).active
    /\ Slot(0, 1).disable_work = IdleWork
    /\ now = MaxTime

\* C21: a key press at a position an instance does not exclude sets that
\* instance's last key press time to the current uptime, whether or not a
\* slot is active; no other step (motion event, timer expiry or run, release,
\* excluded press, passing of time) changes a last key press time.
C21_KeyPressSetsTapTime ==
    [][\A d \in Devs :
          IF last'.kind = "key" /\ last'.state /\ last'.position \notin Excluded(d)
          THEN data'[d].last_tap_time = now
          ELSE data'[d].last_tap_time = data[d].last_tap_time]_vars

\* a press at a position that is not excluded, with no slot active, has moved
\* the last key press time to the current uptime
C21_NoSlotActive ==
    /\ last.kind = "key" /\ last.state
    /\ last.position \notin Excluded(0)
    /\ last.was_active = {}
    /\ now > 0
    /\ data[0].last_tap_time = now

\* C22: handling a motion event for layer L (a layer parameter within
\* 0 .. MAX_LAYERS-1) changes at most slot L of the instance it is delivered
\* to: every other slot's distance, active flag and timer and every last key
\* press time stay as they were, and it emits nothing or activate(L) alone.
C22_MotionFrame ==
    [][(last'.kind = "motion" /\ last'.param1.hi = 0 /\ last'.param1.lo < MAX_LAYERS)
          => /\ \A d \in Devs : \A l \in Layers :
                   (d # last'.dev \/ l # last'.param1.lo)
                   => data'[d].layers[l] = data[d].layers[l]
             /\ \A d \in Devs : data'[d].last_tap_time = data[d].last_tap_time
             /\ Len(emitted') <= 1
             /\ \A c \in Range(emitted') :
                   c.cmd = "activate" /\ c.layer = last'.param1.lo]_vars

\* a motion event has activated layer 1 while slot 0 is active with its timer
\* armed, after a key press
C22_Witness ==
    /\ last.kind = "motion" /\ last.dev = 0 /\ last.param1 = U32(0, 1)
    /\ 1 \notin last.was_active /\ 0 \in last.was_active
    /\ Slot(0, 1).active
    /\ Len(emitted) = 1 /\ emitted[1].cmd = "activate" /\ emitted[1].layer = 1
    /\ Slot(0, 0).active /\ Slot(0, 0).disable_work.scheduled
    /\ data[0].last_tap_time > 0

\* C23: the pending X and Y values are 0 whenever no motion event is being
\* handled, so an X or Y event accumulated for an inactive slot adds exactly
\* the absolute value of its own delta: the other axis never contributes.
C23_PendingAlwaysZero ==
    /\ pending_dx = 0
    /\ pending_dy = 0
    /\ (/\ last.kind = "motion" /\ ~LayerOutOfRange(last.layer)
        /\ last.type = "INPUT_EV_REL" /\ last.code \in {"INPUT_REL_X", "INPUT_REL_Y"}
        /\ last.layer \notin last.was_active
        /\ IdleSatisfied(last.dev))
          => Slot(last.dev, last.layer).accumulated_distance
                = last.was_distance + abs(last.value)

\* a Y event of 1 for a slot holding the distance 2 (as left by X = -2) has
\* brought it to 2 + 1 = 3, where the distance of the pair (-2, 1) is 2
C23_Witness ==
    /\ last.kind = "motion" /\ last.dev = 0 /\ last.layer = 0
    /\ last.code = "INPUT_REL_Y" /\ last.value = 1
    /\ 0 \notin last.was_active
    /\ last.was_distance = 2
    /\ Slot(0, 0).accumulated_distance = 3
    /\ calculate_distance(0 - 2, 1) = 2
    /\ pending_dx = 0 /\ pending_dy = 0

\* C24: with a single instance and atomic handlers, whenever the idle
\* requirement R is greater than 0 and a slot is active, at least R has passed
\* since the last key press (no slot is active inside an idle window), and
\* right after a key press at a position that is not excluded no slot is
\* active.
C24_NoActiveInIdleWindow ==
    \A d \in Devs :
        /\ \A l \in Layers :
              (cfg[d].require_prior_idle_ms > 0 /\ Slot(d, l).active)
              => now - data[d].last_tap_time >= cfg[d].require_prior_idle_ms
        /\ (last.kind = "key" /\ last.state /\ last.position \notin Excluded(d))
              => \A l \in Layers : ~Slot(d, l).active

\* a slot has been activated exactly R after a key press
C24_Witness ==
    /\ cfg[0].require_prior_idle_ms > 0
    /\ data[0].last_tap_time > 0
    /\ last.kind = "motion" /\ last.dev = 0
    /\ last.layer \in Layers /\ last.layer \notin last.was_active
    /\ Slot(0, last.layer).active
    /\ now - data[0].last_tap_time = cfg[0].require_prior_idle_ms

\* C25: an input event that is not a relative X or relative Y event (another
\* relative code, or another event type) changes no slot and no timer and
\* emits no layer command, whether the slot it is bound to is active or not.
C25_OtherEventsIgnored ==
    [][(/\ last'.kind = "motion"
        /\ ~(/\ last'.type = "INPUT_EV_REL"
             /\ last'.code \in {"INPUT_REL_X", "INPUT_REL_Y"}))
          => (data' = data /\ emitted' = <<>> /\ keymap' = keymap)]_vars

\* a wheel event was handled for an active slot, whose deadline is still the
\* one of an earlier X or Y event
C25_Witness ==
    /\ last.kind = "motion" /\ last.dev = 0 /\ last.layer = 0
    /\ last.type = "INPUT_EV_REL" /\ last.code = "INPUT_REL_WHEEL"
    /\ 0 \in last.was_active
    /\ Slot(0, 0).active
    /\ Slot(0, 0).disable_work.scheduled
    /\ Slot(0, 0).disable_work.deadline < now + Timeout(0, 0)
    /\ emitted = <<>>

\* C26: the timeout parameter counts by its low 16 bits read as a signed
\* value.  A slot whose parameter has low 16 bits 0 or in 32768..65535 (such
\* as 40000) never has its timer armed and goes from active to inactive only
\* by a key press at a position that is not excluded; a parameter with low 16
\* bits in 1..32767 arms the timer for that many milliseconds at every X or Y
\* event that leaves the slot active.
C26_TimeoutTruncated ==
    [][\A d \in Devs : \A l \in Layers :
          LET lo == BindParam2(d, l).lo
              after == data'[d].layers[l]
          IN /\ (lo = 0 \/ lo >= 32768)
                   => /\ after.disable_work = IdleWork
                      /\ (Slot(d, l).active /\ ~after.active)
                            => /\ last'.kind = "key" /\ last'.state
                               /\ last'.position \notin Excluded(d)
             /\ (/\ lo >= 1 /\ lo <= 32767
                 /\ last'.kind = "motion" /\ last'.dev = d /\ last'.layer = l
                 /\ last'.type = "INPUT_EV_REL"
                 /\ last'.code \in {"INPUT_REL_X", "INPUT_REL_Y"}
                 /\ after.active)
                   => /\ after.disable_work.scheduled
                      /\ after.disable_work.deadline = now + lo]_vars

\* the slot bound with the timeout 40000, activated while motion was still
\* delivered, is active with no timer at the end of the run
C26_Witness ==
    /\ BindParam2(0, 2) = U32(0, 40000)
    /\ last.kind = "key" /\ last.state
    /\ last.position \in Excluded(0)
    /\ 2 \in last.was_active
    /\ Slot(0, 2).active
    /\ Slot(0, 2).disable_work = IdleWork
    /\ now = MaxTime

\* C27: the last key press time starts at 0 and, with no key event ever
\* handled, stays 0; so with an idle requirement R > 0 a motion event handled
\* for an inactive slot at an uptime below R changes nothing and emits
\* nothing, and an X or Y event at uptime R or later adds its magnitude.
C27_BootIdleWindow ==
    /\ \A d \in Devs : data[d].last_tap_time = 0
    /\ (/\ last.kind = "motion" /\ ~LayerOutOfRange(last.layer)
        /\ last.layer \notin last.was_active
        /\ cfg[last.dev].require_prior_idle_ms > 0)
          => IF now < cfg[last.dev].require_prior_idle_ms
             THEN /\ Slot(last.dev, last.layer).accumulated_distance = last.was_distance
                  /\ ~Slot(last.dev, last.layer).active
                  /\ emitted = <<>>
             ELSE (last.type = "INPUT_EV_REL"
                     /\ last.code \in {"INPUT_REL_X", "INPUT_REL_Y"})
                  => Slot(last.dev, last.layer).accumulated_distance
                        = last.was_distance + abs(last.value)

\* with no key ever pressed, the first X event accumulated arrives at uptime R
C27_Witness ==
    /\ cfg[0].require_prior_idle_ms > 0
    /\ data[0].last_tap_time = 0
    /\ now = cfg[0].require_prior_idle_ms
    /\ last.kind = "motion" /\ last.dev = 0 /\ last.layer = 0
    /\ last.code = "INPUT_REL_X" /\ last.value # 0
    /\ last.was_distance = 0
    /\ Slot(0, 0).accumulated_distance = abs(last.value)

\* with no key ever pressed, an X event handled before uptime R was ignored
C27_Gated ==
    /\ cfg[0].require_prior_idle_ms > 0
    /\ now > 0 /\ now < cfg[0].require_prior_idle_ms
    /\ last.kind = "motion" /\ last.dev = 0 /\ last.layer = 0
    /\ last.code = "INPUT_REL_X" /\ last.value # 0
    /\ Slot(0, 0).accumulated_distance = 0

====
